---- MODULE Spec2Model ----
(***************************************************************************)
(* Model of the coloring-page pipeline of scripts/image_crawler_generator. *)
(* ImageCrawlerGenerator.generate_coloring_pages is a sequential procedure:*)
(* search -> (download, upload) per candidate -> prompt -> optimize ->     *)
(* (generate, upload, record, sleep) per page -> save.  Every call to the  *)
(* outside world (HTTP, storage, file system) is an input of the step that *)
(* makes it, drawn from a small set of outcomes.                           *)
(*                                                                         *)
(* Strings are Python strings; Korean literals are romanised               *)
(*   피카츄 Pikachu, 미키마우스 MickeyMouse, 헬로키티 HelloKitty,          *)
(*   도라에몽 Doraemon, 하츄핑 Hachuping, 아이언미야옹 IronMeow,           *)
(*   포켓몬 Pokemon, 라라핑 Laraping, 바로핑 Baroping, 차차핑 Chachaping,  *)
(*   배트맨 Batman, 운빨존만겜 LuckyDefense.                               *)
(* Python None is the value None below; "falsy" is None or "".             *)
(***************************************************************************)
EXTENDS Integers, Sequences, FiniteSets, TLC

VARIABLES
    \* ---- the request and the generator object (fixed during a run)
    character_name, age_group, difficulty, count,
    gemini_api_key, google_search_api_key, google_search_engine_id, bucket,
    test_images_exist,      \* the files under test_images/ exist on disk
    \* ---- production_generator.main
    no_firebase,            \* args.no_firebase
    initialized_bucket,     \* generator.bucket as init_firebase left it
    \* ---- batch_generator.main
    extract_images,         \* args.extract_images
    sys_argv,               \* sys.argv of the process
    combo,                  \* index of the combination the loops are at
    total_generated, results,
    batch_result_files,     \* batch result files written, in order
    \* ---- locals of generate_coloring_pages
    pc,                     \* position in generate_coloring_pages
    image_urls, ci,         \* candidates and the index of the fetch loop
    uploaded_images,
    base_prompt, optimized_prompt,
    i,                      \* index of the page loop (0-based, as in the code)
    generated_pages,
    result_files,           \* manifests written, in order
    returned,               \* return value of generate_coloring_pages
    \* ---- observations of the run
    clock,                  \* seconds slept so far (time.sleep)
    attempts,               \* what each page-loop iteration did, in order
    last_search,            \* what search_images did
    fetches,                \* what each fetch-loop iteration did, in order
    last_text,              \* how the prompt-optimization call ended
    download_files,         \* the files in the download directory
    overwritten,            \* downloads that replaced a file already there
    call                    \* a single method call on the object, with its result

vars == << character_name, age_group, difficulty, count,
           gemini_api_key, google_search_api_key, google_search_engine_id,
           bucket, test_images_exist, no_firebase, initialized_bucket,
           extract_images, sys_argv, combo, total_generated, results,
           batch_result_files,
           pc, image_urls, ci, uploaded_images, base_prompt, optimized_prompt,
           i, generated_pages, result_files, returned, clock, attempts,
           last_search, fetches, last_text, download_files, overwritten,
           call >>

\* ------------------------------------------------------------------ bounds
MaxCount == 3
MaxLimit == 6
MaxPageNumber == 22
MaxRuns == 2

\* ------------------------------------------------------------ Python values
None == "<None>"
Truthy(v) == v \notin {None, ""}

Min(a, b) == IF a < b THEN a ELSE b
Max(a, b) == IF a > b THEN a ELSE b

\* str.startswith
StartsWith(s, p) == Len(s) >= Len(p) /\ SubSeq(s, 1, Len(p)) = p

\* `key in character_name` on strings: substring test
Contains(s, key) ==
    \E k \in 0..(Len(s) - Len(key)) : SubSeq(s, k + 1, k + Len(key)) = key

\* urls[:n] with Python's slice semantics (a negative n counts from the end)
SlicePrefix(s, n) ==
    IF n >= 0 THEN SubSeq(s, 1, Min(n, Len(s)))
    ELSE SubSeq(s, 1, Max(Len(s) + n, 0))

\* range(n) as the sequence 0 .. n-1 (empty when n <= 0)
Range(n) == [j \in 1..Max(n, 0) |-> j - 1]

\* requests.Response.raise_for_status: raises for 4xx and 5xx.  requests
\* follows redirects, so the final statuses explored below are 200 and
\* error statuses; a final 3xx would pass raise_for_status.
RaiseForStatus(status) == status >= 400 /\ status < 600

\* --------------------------------------------------------- Reference Locator
\* keys of the dict test_images, in insertion (= iteration) order
TestImageKeys ==
    << "Pikachu", "MickeyMouse", "HelloKitty", "Doraemon", "Hachuping", "IronMeow" >>

\* test_images[key]: three entries, all the same file
test_images(key) ==
    LET f == CASE key = "Pikachu"     -> "test_images/Pokemon Pikachu_test.png"
               [] key = "MickeyMouse" -> "test_images/MickeyMouse_test.png"
               [] key = "HelloKitty"  -> "test_images/HelloKitty_test.png"
               [] key = "Doraemon"    -> "test_images/Doraemon_test.png"
               [] key = "Hachuping"   -> "test_images/Hachuping_test.png"
               [] key = "IronMeow"    -> "test_images/IronMeow_test.png"
    IN  << f, f, f >>

DefaultTestImage == "test_images/Doraemon_test.png"

\* f"{character_name} Official Art {i+1}" for the enumerate/range index j
MockTitle(name, j) == name \o " Official Art " \o ToString(j + 1)

\* variant: the entries are not cut to `limit`
MockKnown_NoLimit(name, limit) ==
    LET hits == {j \in DOMAIN TestImageKeys : Contains(name, TestImageKeys[j])}
    IN  IF hits = {} THEN << >>
        ELSE LET first == CHOOSE j \in hits : \A h \in hits : j <= h
                 urls  == test_images(TestImageKeys[first])
             IN  [j \in DOMAIN urls |->
                    [url |-> urls[j], title |-> MockTitle(name, j - 1),
                     thumbnail |-> urls[j]]]

\* the `for key, urls in test_images.items(): if key in character_name: ... break`
\* loop: the entries of the first key contained in the name, cut by urls[:limit]
MockKnown(name, limit) ==
    LET hits == {j \in DOMAIN TestImageKeys : Contains(name, TestImageKeys[j])}
    IN  IF hits = {} THEN << >>
        ELSE LET first == CHOOSE j \in hits : \A h \in hits : j <= h
                 urls  == SlicePrefix(test_images(TestImageKeys[first]), limit)
             IN  [j \in DOMAIN urls |->
                    [url |-> urls[j], title |-> MockTitle(name, j - 1),
                     thumbnail |-> urls[j]]]

\* the `if not mock_images: for i in range(limit)` default loop
MockDefault(name, limit) ==
    [j \in DOMAIN Range(limit) |->
        [url |-> DefaultTestImage, title |-> MockTitle(name, Range(limit)[j]),
         thumbnail |-> DefaultTestImage]]

mock_image_search(name, limit) ==
    LET mock_images == MockKnown(name, limit)
    IN  IF mock_images = << >> THEN MockDefault(name, limit) ELSE mock_images

\* A response of the custom-search endpoint to requests.get:
\*   kind "raise"  the call raised (connection error, timeout)
\*   kind "resp"   a response with `status`; `json` says whether the body
\*                 parses; `has_items` whether the object has an 'items' key;
\*                 an item with complete = FALSE lacks one of the keys
\*                 'link', 'title', 'image'/'thumbnailLink' (KeyError).
RemoteItemA ==
    [link |-> "https://img.example/a.jpg", title |-> "A",
     thumbnailLink |-> "https://img.example/a_t.jpg", complete |-> TRUE]
RemoteItemB ==
    [link |-> "https://img.example/b.jpg", title |-> "B",
     thumbnailLink |-> "", complete |-> TRUE]
RemoteItemBad ==
    [link |-> "", title |-> "", thumbnailLink |-> "", complete |-> FALSE]

SearchResp(kind, status, json, has_items, items) ==
    [kind |-> kind, status |-> status, json |-> json,
     has_items |-> has_items, items |-> items]

SearchResponses ==
    { SearchResp("raise", 0, FALSE, FALSE, << >>),
      SearchResp("resp", 403, TRUE, FALSE, << >>),
      SearchResp("resp", 500, FALSE, FALSE, << >>),
      SearchResp("resp", 200, FALSE, FALSE, << >>),
      SearchResp("resp", 200, TRUE, FALSE, << >>),
      SearchResp("resp", 200, TRUE, TRUE, << RemoteItemA >>),
      SearchResp("resp", 200, TRUE, TRUE, << RemoteItemA, RemoteItemB >>),
      SearchResp("resp", 200, TRUE, TRUE, << RemoteItemA, RemoteItemBad >>) }

\* No call is made without both credentials; the outcome is then this one.
NoSearchCall == SearchResp("none", 0, FALSE, FALSE, << >>)

\* variant: raise_for_status() is missing
SearchRaises_NoStatusCheck(resp) ==
    \/ resp.kind = "raise"
    \/ ~resp.json
    \/ \E j \in DOMAIN resp.items : ~resp.items[j].complete

\* lines 86-100: does the try body raise on this response?
SearchRaises(resp) ==
    \/ resp.kind = "raise"
    \/ RaiseForStatus(resp.status)
    \/ ~resp.json
    \/ \E j \in DOMAIN resp.items : ~resp.items[j].complete

\* lines 89-97: data.get('items', []) turned into candidates
SearchParse(resp) ==
    LET items == IF resp.has_items THEN resp.items ELSE << >>
    IN  [j \in DOMAIN items |->
            [url |-> items[j].link, title |-> items[j].title,
             thumbnail |-> items[j].thumbnailLink]]

\* whether search_images performs the remote call at all (line 63)
SearchConfigured ==
    Truthy(google_search_api_key) /\ Truthy(google_search_engine_id)

search_images(name, limit, resp) ==
    IF ~SearchConfigured THEN mock_image_search(name, limit)
    ELSE IF SearchRaises(resp) THEN mock_image_search(name, limit)
    ELSE SearchParse(resp)


\* ------------------------------------------------------------ Asset Fetcher
download_dir == "downloaded_images"

\* os.path.join(self.download_dir, filename)
JoinDownloadDir(filename) == download_dir \o "/" \o filename

\* os.path.exists on a candidate's local path: only the test assets can exist
PathExists(path) == StartsWith(path, "test_images/") /\ test_images_exist

\* Outcome of one requests.get of an image: 0 = the call raised (transport
\* error, timeout), otherwise the status of the response.
HttpOutcomes == {0, 200, 404}

\* line 171: the candidate is a local file
IsLocalSource(image_url) ==
    StartsWith(image_url, "test_images/") \/ ~StartsWith(image_url, "http")

\* download_image; thumb and orig are the outcomes of the two requests.get
download_image(image_url, filename, thumbnail_url, thumb, orig) ==
    IF IsLocalSource(image_url)
    THEN IF PathExists(image_url) THEN JoinDownloadDir(filename) ELSE None
    ELSE IF Truthy(thumbnail_url) /\ thumb = 200
         THEN JoinDownloadDir(filename)
         ELSE IF orig = 0 \/ RaiseForStatus(orig) THEN None
              ELSE JoinDownloadDir(filename)

\* variant: the original is requested even after the thumbnail answered 200
DownloadTrace_AlwaysOriginal(image_url, thumbnail_url, thumb, orig) ==
    IF IsLocalSource(image_url) THEN << >>
    ELSE (IF Truthy(thumbnail_url)
          THEN << [target |-> thumbnail_url, outcome |-> thumb] >> ELSE << >>)
         \o << [target |-> image_url, outcome |-> orig] >>

\* The requests.get calls download_image makes, in order (lines 186, 197):
\* none for a local source; the thumbnail when there is one; the original
\* unless the thumbnail answered 200.
DownloadTrace(image_url, thumbnail_url, thumb, orig) ==
    IF IsLocalSource(image_url) THEN << >>
    ELSE (IF Truthy(thumbnail_url)
          THEN << [target |-> thumbnail_url, outcome |-> thumb] >> ELSE << >>)
         \o (IF Truthy(thumbnail_url) /\ thumb = 200 THEN << >>
             ELSE << [target |-> image_url, outcome |-> orig] >>)

\* The fetch of a candidate failed: a local file that does not exist, or no
\* request answered with a usable status (the thumbnail with 200, the
\* original with a status that is no error).
FetchFailed(image_url, thumbnail_url, thumb, orig) ==
    IF IsLocalSource(image_url) THEN ~PathExists(image_url)
    ELSE /\ ~(Truthy(thumbnail_url) /\ thumb = 200)
         /\ (orig = 0 \/ orig \notin 200..299)

\* ---------------------------------------------------------- Asset Publisher
StorageBucket == "coloring-98f0c.firebasestorage.app"

\* blob.public_url of google-cloud-storage (quoting of the name left out)
PublicUrl(blob_name) ==
    "https://storage.googleapis.com/" \o StorageBucket \o "/" \o blob_name

\* datetime.now().strftime("%Y%m%d_%H%M%S") at time t
Timestamp(t) == "T" \o ToString(t)

\* os.path.basename
Basename(path) ==
    LET slashes == {k \in 1..Len(path) : SubSeq(path, k, k) = "/"}
    IN  IF slashes = {} THEN path
        ELSE LET last == CHOOSE k \in slashes : \A h \in slashes : h <= k
             IN  SubSeq(path, last + 1, Len(path))

\* Outcome of the storage calls of one upload: "ok", or the step that raised.
UploadOutcomes == {"ok", "blob", "upload", "make_public"}

\* variant: the bare path is returned when the upload fails
upload_to_firebase_storage_BarePath(image_path, name, up) ==
    IF ~Truthy(bucket) THEN "file://" \o image_path
    ELSE IF up # "ok" THEN image_path
    ELSE PublicUrl("reference_images/" \o name \o "/" \o Timestamp(clock)
                   \o "_" \o Basename(image_path))

\* variant: a failed upload yields no URL at all
upload_to_firebase_storage_NoneOnFailure(image_path, name, up) ==
    IF ~Truthy(bucket) THEN "file://" \o image_path
    ELSE IF up # "ok" THEN None
    ELSE PublicUrl("reference_images/" \o name \o "/" \o Timestamp(clock)
                   \o "_" \o Basename(image_path))

upload_to_firebase_storage(image_path, name, up) ==
    IF ~Truthy(bucket) THEN "file://" \o image_path
    ELSE IF up # "ok" THEN "file://" \o image_path
    ELSE PublicUrl("reference_images/" \o name \o "/" \o Timestamp(clock)
                   \o "_" \o Basename(image_path))

\* f"{page_number:02d}"
TwoDigits(n) == IF n < 10 THEN "0" \o ToString(n) ELSE ToString(n)

\* Outcome of one page upload: "ok", "b64decode" (the payload is not valid
\* base64), or the storage step that raised.
PageUploadOutcomes == {"ok", "b64decode", "upload"}

\* variant: a failed page upload yields no URL
upload_coloring_page_EmptyOnFailure(base64_image, name, age, diff, page_number, up) ==
    IF ~Truthy(bucket) THEN "local_coloring_page_" \o ToString(page_number) \o ".png"
    ELSE IF up # "ok" THEN ""
    ELSE PublicUrl("coloring_pages/" \o age \o "/" \o diff \o "/" \o name \o "/"
                   \o name \o "_page_" \o TwoDigits(page_number) \o "_"
                   \o Timestamp(clock) \o ".png")

upload_coloring_page_to_firebase(base64_image, name, age, diff, page_number, up) ==
    IF ~Truthy(bucket) THEN "local_coloring_page_" \o ToString(page_number) \o ".png"
    ELSE IF up # "ok" THEN "local_coloring_page_" \o ToString(page_number) \o ".png"
    ELSE PublicUrl("coloring_pages/" \o age \o "/" \o diff \o "/" \o name \o "/"
                   \o name \o "_page_" \o TwoDigits(page_number) \o "_"
                   \o Timestamp(clock) \o ".png")


\* -------------------------------------------------------- Prompt Synthesizer
CharacterKeys ==
    { "Hachuping", "Laraping", "Baroping", "Chachaping", "Doraemon",
      "MickeyMouse", "Pikachu", "Batman", "LuckyDefense", "IronMeow" }

character_descriptions(name) ==
    CASE name = "Hachuping" -> "pink-haired character with heart decorations, crown tiara, pink dress with white top, cute chibi proportions, magical girl style, TiniPing character"
      [] name = "Laraping" -> "blue-haired character with star decorations, crown tiara, blue dress, cute chibi proportions, magical girl style, TiniPing character"
      [] name = "Baroping" -> "yellow-haired character with sun decorations, crown tiara, yellow dress, cute chibi proportions, magical girl style, TiniPing character"
      [] name = "Chachaping" -> "green-haired character with leaf decorations, crown tiara, green dress, cute chibi proportions, magical girl style, TiniPing character"
      [] name = "Doraemon" -> "blue robot cat with white belly, red collar with bell, round head, no ears, cute proportions, Doraemon character"
      [] name = "MickeyMouse" -> "black mouse with large round ears, red shorts, yellow shoes, white gloves, Disney character"
      [] name = "Pikachu" -> "yellow electric mouse with red cheeks, brown stripes on back, black-tipped ears, Pokemon character"
      [] name = "Batman" -> "dark superhero with black cape, bat symbol on chest, pointy bat ears, muscular build, intimidating presence, DC Comics character"
      [] name = "LuckyDefense" -> "lucky character with gambling theme, dice symbols, coin decorations, playful expression, game character style"
      [] name = "IronMeow" -> "lucky gambling game character, cute cat with iron armor, mechanical elements, futuristic design, playful expression, distinctive helmet design, chest reactor, gaming mascot style"

\* variant: a name that contains a key gets that key's description
char_desc_Substring(name) ==
    IF \E k \in CharacterKeys : Contains(name, k)
    THEN character_descriptions(CHOOSE k \in CharacterKeys : Contains(name, k))
    ELSE name

\* character_descriptions.get(character_name, character_name)
char_desc(name) ==
    IF name \in CharacterKeys THEN character_descriptions(name) ELSE name

AgeGroups == {"child", "teen", "adult"}
Difficulties == {"easy", "medium", "hard"}

\* age_prompts[age][diff] without the leading f"{char_desc}"
age_prompts(age, diff) ==
    CASE age = "child" /\ diff = "easy" -> ", simple coloring page for children ages 3-6, thick bold outlines 5-6px, minimal details, large clear coloring areas, cute chibi proportions, friendly expression"
      [] age = "child" /\ diff = "medium" -> ", coloring page for children ages 6-8, medium line weight 3-4px, moderate details, balanced complexity, dynamic pose, cheerful expression"
      [] age = "child" /\ diff = "hard" -> ", detailed coloring page for children ages 8-10, fine line art 2-3px, intricate patterns, complex elements, expressive pose"
      [] age = "teen" /\ diff = "easy" -> ", teen-friendly coloring page ages 9-12, medium line weight 3-4px, clear outlines, moderate details, cool pose"
      [] age = "teen" /\ diff = "medium" -> ", detailed coloring page for teens ages 12-15, fine line art 2-3px, intricate details, dynamic composition, stylish pose"
      [] age = "teen" /\ diff = "hard" -> ", complex coloring page for teens ages 15+, very fine line art 1-2px, highly detailed design, sophisticated composition, dramatic pose"
      [] age = "adult" /\ diff = "easy" -> ", adult coloring page ages 16+, medium complexity, clean line art 2-3px, elegant design, sophisticated pose"
      [] age = "adult" /\ diff = "medium" -> ", detailed adult coloring page, fine line art 1-2px, intricate patterns, complex composition, artistic pose"
      [] age = "adult" /\ diff = "hard" -> ", highly detailed adult coloring page, very fine line art 1px, extremely intricate patterns, complex mandala-style elements, artistic masterpiece"

\* age_prompts.get(age_group, {}).get(difficulty, f"{char_desc}, coloring page")
generate_age_based_prompt(name, age, diff) ==
    IF age \in AgeGroups /\ diff \in Difficulties
    THEN char_desc(name) \o age_prompts(age, diff)
    ELSE char_desc(name) \o ", coloring page"

\* A response of the text model to requests.post: kind "raise" or "resp" with
\* `status`; shape "text" is a body with candidates[0].content.parts[0].text
\* = `text`, "no_candidates" a body without (or with empty) 'candidates',
\* "bad" a body whose first candidate lacks the keys (KeyError) or is not JSON.
TextResp(kind, status, shape, text) ==
    [kind |-> kind, status |-> status, shape |-> shape, text |-> text]

ServiceText == "bold black outlines, white background, printable A4"

TextResponses ==
    { TextResp("raise", 0, "bad", ""),
      TextResp("resp", 500, "bad", ""),
      TextResp("resp", 200, "no_candidates", ""),
      TextResp("resp", 200, "bad", ""),
      TextResp("resp", 200, "text", ServiceText) }

NoTextCall == TextResp("none", 0, "bad", "")

\* How the call of lines 359-378 ended: not made, answered 200 with the text
\* at candidates[0].content.parts[0].text, or anything else.
TextOutcome(resp) ==
    IF resp.kind = "none" THEN "none"
    ELSE IF resp.kind = "resp" /\ resp.status = 200 /\ resp.shape = "text"
         THEN "ok"
    ELSE "failed"

\* variant: the service's text is appended to the input prompt
optimize_prompt_with_gemini_Merge(prompt, resp) ==
    IF ~Truthy(gemini_api_key) THEN prompt
    ELSE IF resp.kind = "raise" THEN prompt
    ELSE IF resp.status = 200 /\ resp.shape = "text"
         THEN prompt \o ", " \o resp.text
    ELSE prompt

optimize_prompt_with_gemini(prompt, resp) ==
    IF ~Truthy(gemini_api_key) THEN prompt
    ELSE IF resp.kind = "raise" THEN prompt
    ELSE IF resp.status = 200
         THEN IF resp.shape = "bad" THEN prompt              \* except branch
              ELSE IF resp.shape = "text" THEN resp.text
              ELSE prompt
         ELSE prompt


\* ---------------------------------------------------------- Page Synthesizer
variations ==
    << "cute and friendly expression",
       "happy and cheerful pose",
       "playful and energetic stance",
       "calm and peaceful pose",
       "excited and joyful expression",
       "thoughtful and curious look",
       "adventurous and brave pose",
       "gentle and kind expression",
       "funny and silly pose",
       "confident and proud stance" >>

\* variant: the page number is used without the -1
variation_index_NoOffset(page_number) == page_number % Len(variations)

\* lines 417-418; Python's list index is 0-based, the tuple's 1-based
variation_index(page_number) == (page_number - 1) % Len(variations)
selected_variation(page_number) == variations[variation_index(page_number) + 1]

\* generate_local_coloring_page: a fixed drawing, encoded; it reads no input
\* and does no I/O, so its except branch (returning "") is not taken.
LocalImage == "b64:local-800x600-rect-circle-ellipse"
generate_local_coloring_page_Empty(prompt) == ""
generate_local_coloring_page(prompt) == LocalImage

\* image_to_base64.  `read` is the outcome of reading the reference: TRUE when
\* open() / requests.get gave bytes, FALSE when it raised.  requests.get of a
\* URL without a scheme raises MissingSchema whatever the network does.  The
\* status of the response is not looked at.
image_to_base64(image_url, read) ==
    IF StartsWith(image_url, "file://")
    THEN IF read THEN "b64:" \o SubSeq(image_url, 8, Len(image_url)) ELSE ""
    ELSE IF StartsWith(image_url, "http://") \/ StartsWith(image_url, "https://")
         THEN IF read THEN "b64:" \o image_url ELSE ""
         ELSE ""

\* A response of the image model to requests.post: kind "raise" (exception,
\* timeout) or "resp" with `status`; has_candidates: the body has a non-empty
\* 'candidates'; parts: candidates[0].content.parts, each part either text
\* (inline = FALSE) or inlineData with a mimeType and data.
TextPart == [inline |-> FALSE, mimeType |-> "", data |-> ""]
ImagePart == [inline |-> TRUE, mimeType |-> "image/png", data |-> "b64:gemini-image"]
PdfPart == [inline |-> TRUE, mimeType |-> "application/pdf", data |-> "b64:pdf"]

GenResp(kind, status, has_candidates, parts) ==
    [kind |-> kind, status |-> status, has_candidates |-> has_candidates,
     parts |-> parts]

GenResponses ==
    { GenResp("raise", 0, FALSE, << >>),
      GenResp("resp", 500, FALSE, << >>),
      GenResp("resp", 200, FALSE, << >>),
      GenResp("resp", 200, TRUE, << TextPart >>),
      GenResp("resp", 200, TRUE, << PdfPart >>),
      GenResp("resp", 200, TRUE, << TextPart, ImagePart >>) }

NoGenCall == GenResp("none", 0, FALSE, << >>)

\* The external call failed: it raised (or timed out), answered with a status
\* other than 200, or its body holds no inline image.
GenCallFailed(resp) ==
    \/ resp.kind = "raise"
    \/ resp.status # 200
    \/ ~resp.has_candidates
    \/ \A j \in DOMAIN resp.parts :
          ~(resp.parts[j].inline /\ StartsWith(resp.parts[j].mimeType, "image/"))

\* lines 477-487: the data of the first image part, None when there is none
ExtractImage(resp) ==
    LET hits == {j \in DOMAIN resp.parts :
                    resp.parts[j].inline /\ StartsWith(resp.parts[j].mimeType, "image/")}
    IN  IF ~resp.has_candidates \/ hits = {} THEN None
        ELSE resp.parts[CHOOSE j \in hits : \A h \in hits : j <= h].data

\* Which path generate_coloring_page_with_gemini_image takes:
\*   "local_nokey"  no credential: generate_local_coloring_page (line 389)
\*   "local_noref"  the reference could not be encoded (line 400)
\*   "remote"       the request is composed and posted (line 465)
GenPath(reference_image_url, read) ==
    IF ~Truthy(gemini_api_key) THEN "local_nokey"
    ELSE IF ~Truthy(image_to_base64(reference_image_url, read)) THEN "local_noref"
    ELSE "remote"

\* the request posted at line 465 (the fixed requirement text left out)
ComposeRequest(prompt, reference_image_url, page_number, read) ==
    [prompt |-> prompt, reference |-> reference_image_url,
     variation |-> selected_variation(page_number),
     data |-> image_to_base64(reference_image_url, read)]

\* variant: a failed call falls back to the local drawing
generate_coloring_page_FallbackOnFailure(prompt, reference_image_url, page_number, read, resp) ==
    IF GenPath(reference_image_url, read) # "remote"
    THEN generate_local_coloring_page(prompt)
    ELSE IF resp.kind = "raise" THEN generate_local_coloring_page(prompt)
    ELSE IF resp.status = 200
         THEN IF ExtractImage(resp) = None
              THEN generate_local_coloring_page(prompt) ELSE ExtractImage(resp)
    ELSE generate_local_coloring_page(prompt)

generate_coloring_page_with_gemini_image(prompt, reference_image_url, page_number, read, resp) ==
    IF GenPath(reference_image_url, read) # "remote"
    THEN generate_local_coloring_page(prompt)
    ELSE IF resp.kind = "raise" THEN None
    ELSE IF resp.status = 200 THEN ExtractImage(resp)
    ELSE None


\* ------------------------------------------------- generate_coloring_pages
Keys == {"", "key"}
Buckets == {None, "bucket"}

\* search_images(character_name, limit=5) at line 540
SearchLimit == 5
\* time.sleep(2) at line 615
SleepSeconds == 2

\* the (character_name, age_group, difficulty) of the runs explored (the
\* first entry of main()'s test list, line 648)
Requests == { << "Pokemon Pikachu", "child", "easy" >> }

NoCall == [op |-> "none"]

\* outside batch_generator.main: the script's own argument vector, no batch
NoBatch ==
    /\ extract_images = FALSE
    /\ sys_argv = << "image_crawler_generator.py" >>
    /\ combo = 0
    /\ total_generated = 0
    /\ results = << >>
    /\ batch_result_files = << >>

Init ==
    /\ \E r \in Requests :
          character_name = r[1] /\ age_group = r[2] /\ difficulty = r[3]
    /\ count \in 0..MaxCount
    /\ gemini_api_key \in Keys
    /\ google_search_api_key \in Keys
    /\ google_search_engine_id \in Keys
    /\ bucket \in Buckets
    /\ test_images_exist \in BOOLEAN
    /\ no_firebase = FALSE
    /\ initialized_bucket = bucket
    /\ NoBatch
    /\ pc = "search"
    /\ image_urls = << >>
    /\ ci = 0
    /\ uploaded_images = << >>
    /\ base_prompt = ""
    /\ optimized_prompt = ""
    /\ i = 0
    /\ generated_pages = << >>
    /\ result_files = << >>
    /\ returned = None
    /\ clock = 0
    /\ attempts = << >>
    /\ last_search = NoSearchCall
    /\ fetches = << >>
    /\ last_text = "none"
    /\ download_files = {}
    /\ overwritten = {}
    /\ call = NoCall

\* the variables of batch_generator.main, which the pipeline never touches
batch_vars == << extract_images, sys_argv, combo, total_generated, results,
                batch_result_files >>

\* the download directory, which only download_image writes
disk == << download_files, overwritten >>

request == << character_name, age_group, difficulty, count, gemini_api_key,
             google_search_api_key, google_search_engine_id, bucket,
             test_images_exist, no_firebase, initialized_bucket, batch_vars,
             call >>

\* line 540
Search ==
    /\ pc = "search"
    /\ \E resp \in (IF SearchConfigured THEN SearchResponses ELSE {NoSearchCall}) :
          /\ image_urls' = search_images(character_name, SearchLimit, resp)
          /\ last_search' = resp
    /\ pc' = "fetch"
    /\ ci' = 0
    /\ UNCHANGED << request, disk, uploaded_images, base_prompt, optimized_prompt, i,
                    generated_pages, result_files, returned, clock, attempts,
                    fetches, last_text >>

\* lines 175-205: download_image writes (shutil.copy2, or open(.., 'wb')) the
\* file at the path it returns, replacing a file of that name
WriteDownload(local_path) ==
    IF Truthy(local_path)
    THEN /\ download_files' = download_files \cup {local_path}
         /\ overwritten' = overwritten \cup ({local_path} \cap download_files)
    ELSE UNCHANGED disk

\* variant: the first failed download ends the loop
Fetch_StopOnFailure ==
    /\ pc = "fetch"
    /\ ci < Len(image_urls)
    /\ LET img_info == image_urls[ci + 1]
           filename == character_name \o "_" \o ToString(ci + 1) \o ".jpg"
       IN  \E thumb \in HttpOutcomes, orig \in HttpOutcomes, up \in UploadOutcomes :
              LET local_path == download_image(img_info.url, filename,
                                               img_info.thumbnail, thumb, orig)
                  firebase_url == upload_to_firebase_storage(local_path,
                                                             character_name, up)
              IN  /\ uploaded_images' =
                        IF Truthy(local_path)
                        THEN Append(uploaded_images,
                                    [local_path |-> local_path,
                                     firebase_url |-> firebase_url,
                                     title |-> img_info.title])
                        ELSE uploaded_images
                  /\ WriteDownload(local_path)
                  /\ fetches' =
                        Append(fetches,
                               [index |-> ci + 1,
                                failed |-> FetchFailed(img_info.url,
                                              img_info.thumbnail, thumb, orig),
                                local_path |-> local_path])
    /\ ci' = IF fetches'[Len(fetches')].local_path = None
             THEN Len(image_urls) ELSE ci + 1
    /\ UNCHANGED << request, pc, image_urls, base_prompt, optimized_prompt, i,
                    generated_pages, result_files, returned, clock, attempts,
                    last_search, last_text >>

\* lines 546-557: one iteration of the download/upload loop
Fetch ==
    /\ pc = "fetch"
    /\ ci < Len(image_urls)
    /\ LET img_info == image_urls[ci + 1]
           filename == character_name \o "_" \o ToString(ci + 1) \o ".jpg"
       IN  \E thumb \in HttpOutcomes, orig \in HttpOutcomes, up \in UploadOutcomes :
              LET local_path == download_image(img_info.url, filename,
                                               img_info.thumbnail, thumb, orig)
                  firebase_url == upload_to_firebase_storage(local_path,
                                                             character_name, up)
              IN  /\ uploaded_images' =
                        IF Truthy(local_path)
                        THEN Append(uploaded_images,
                                    [local_path |-> local_path,
                                     firebase_url |-> firebase_url,
                                     title |-> img_info.title])
                        ELSE uploaded_images
                  /\ WriteDownload(local_path)
                  /\ fetches' =
                        Append(fetches,
                               [index |-> ci + 1,
                                failed |-> FetchFailed(img_info.url,
                                              img_info.thumbnail, thumb, orig),
                                local_path |-> local_path])
    /\ ci' = ci + 1
    /\ UNCHANGED << request, pc, image_urls, base_prompt, optimized_prompt, i,
                    generated_pages, result_files, returned, clock, attempts,
                    last_search, last_text >>

\* variant: the prompt is built without waiting for the download loop to end
Prompt_BeforeFetchesEnd ==
    /\ pc = "fetch"
    /\ base_prompt' = generate_age_based_prompt(character_name, age_group, difficulty)
    /\ \E resp \in (IF Truthy(gemini_api_key) THEN TextResponses ELSE {NoTextCall}) :
          /\ optimized_prompt' = optimize_prompt_with_gemini(base_prompt', resp)
          /\ last_text' = TextOutcome(resp)
    /\ generated_pages' = << >>
    /\ i' = 0
    /\ pc' = "pages"
    /\ UNCHANGED << request, disk, image_urls, ci, uploaded_images, result_files,
                    returned, clock, attempts, last_search, fetches >>

\* lines 559-569: the raw prompt, its optimization, and the empty page list
Prompt ==
    /\ pc = "fetch"
    /\ ci >= Len(image_urls)
    /\ base_prompt' = generate_age_based_prompt(character_name, age_group, difficulty)
    /\ \E resp \in (IF Truthy(gemini_api_key) THEN TextResponses ELSE {NoTextCall}) :
          /\ optimized_prompt' = optimize_prompt_with_gemini(base_prompt', resp)
          /\ last_text' = TextOutcome(resp)
    /\ generated_pages' = << >>
    /\ i' = 0
    /\ pc' = "pages"
    /\ UNCHANGED << request, disk, image_urls, ci, uploaded_images, result_files,
                    returned, clock, attempts, last_search, fetches >>

\* variant: always the first reference
ref_image_NoCycle(j) ==
    IF uploaded_images # << >>
    THEN uploaded_images[1].firebase_url
    ELSE DefaultTestImage

\* variant: without references only the first page gets the default
ref_image_DefaultOnce(j) ==
    IF uploaded_images # << >>
    THEN uploaded_images[(j % Len(uploaded_images)) + 1].firebase_url
    ELSE IF j = 0 THEN DefaultTestImage ELSE ""

\* lines 574-579: the reference of the iteration with loop index j (0-based)
ref_image(j) ==
    IF uploaded_images # << >>
    THEN uploaded_images[(j % Len(uploaded_images)) + 1].firebase_url
    ELSE DefaultTestImage

\* variant: the record is numbered with the 0-based loop index
PageRecord_ZeroBased(page_number, reference, payload, url) ==
    [page_number |-> page_number - 1,
     character_name |-> character_name,
     age_group |-> age_group,
     difficulty |-> difficulty,
     prompt |-> optimized_prompt,
     reference_image |-> reference,
     generated_image_base64 |-> payload,
     generated_image_url |-> url,
     generated_at |-> Timestamp(clock)]

\* lines 602-612
PageRecord(page_number, reference, payload, url) ==
    [page_number |-> page_number,
     character_name |-> character_name,
     age_group |-> age_group,
     difficulty |-> difficulty,
     prompt |-> optimized_prompt,
     reference_image |-> reference,
     generated_image_base64 |-> payload,
     generated_image_url |-> url,
     generated_at |-> Timestamp(clock)]

\* variant: `break` instead of `continue`
PageSkip_Break(entry) ==
    /\ attempts' = Append(attempts, entry)
    /\ i' = count
    /\ UNCHANGED << generated_pages, clock >>

\* variant: a failed page is tried again
PageSkip_Retry(entry) ==
    /\ attempts' = Append(attempts, entry)
    /\ i' = i
    /\ UNCHANGED << generated_pages, clock >>

\* lines 588-591: the page failed; `continue` goes to the next index at once
PageSkip(entry) ==
    /\ attempts' = Append(attempts, entry)
    /\ i' = i + 1
    /\ UNCHANGED << generated_pages, clock >>

\* variant: the newest record is put in front
PageAppend_Prepend(entry, record) ==
    /\ generated_pages' = << record >> \o generated_pages
    /\ attempts' = Append(attempts, entry)
    /\ clock' = clock + SleepSeconds
    /\ i' = i + 1

\* lines 602-615: record the page, sleep, go to the next index
PageAppend(entry, record) ==
    /\ generated_pages' = Append(generated_pages, record)
    /\ attempts' = Append(attempts, entry)
    /\ clock' = clock + SleepSeconds
    /\ i' = i + 1

\* lines 571-615: one iteration of the page loop
Page ==
    /\ pc = "pages"
    /\ i < count
    /\ \E read \in BOOLEAN :
          LET ref  == ref_image(i)
              path == GenPath(ref, read)
          IN  \E resp \in (IF path = "remote" THEN GenResponses ELSE {NoGenCall}) :
                 LET coloring_page_base64 ==
                        generate_coloring_page_with_gemini_image(
                            optimized_prompt, ref, i + 1, read, resp)
                     entry(slept) ==
                        [page_number |-> i + 1, reference |-> ref, path |-> path,
                         variation |-> IF path = "remote"
                                       THEN ComposeRequest(optimized_prompt, ref,
                                                           i + 1, read).variation
                                       ELSE "",
                         call_failed |-> path = "remote" /\ GenCallFailed(resp),
                         result |-> coloring_page_base64, slept |-> slept]
                 IN  IF ~Truthy(coloring_page_base64)
                     THEN PageSkip(entry(FALSE))
                     ELSE \E up \in (IF Truthy(bucket) THEN PageUploadOutcomes
                                     ELSE {"ok"}) :
                             PageAppend(entry(TRUE),
                                 PageRecord(i + 1, ref, coloring_page_base64,
                                     upload_coloring_page_to_firebase(
                                         coloring_page_base64, character_name,
                                         age_group, difficulty, i + 1, up)))
    /\ UNCHANGED << request, disk, pc, image_urls, ci, uploaded_images, base_prompt,
                    optimized_prompt, result_files, returned, last_search,
                    fetches, last_text >>

\* variant: total_pages counts the pages that were generated
result_data_CountsGenerated ==
    [character_name |-> character_name,
     age_group |-> age_group,
     difficulty |-> difficulty,
     total_pages |-> Len(generated_pages),
     generated_at |-> Timestamp(clock),
     prompt_used |-> optimized_prompt,
     reference_images |-> uploaded_images,
     generated_pages |-> generated_pages]

\* lines 622-631
result_data ==
    [character_name |-> character_name,
     age_group |-> age_group,
     difficulty |-> difficulty,
     total_pages |-> count,
     generated_at |-> Timestamp(clock),
     prompt_used |-> optimized_prompt,
     reference_images |-> uploaded_images,
     generated_pages |-> generated_pages]

\* variant: the manifest is written only when some page was generated
Save_SkipWhenNoPages ==
    /\ pc = "pages"
    /\ i >= count
    /\ LET result_file == "coloring_pages_" \o character_name \o "_"
                          \o Timestamp(clock) \o ".json"
       IN  IF generated_pages = << >>
           THEN UNCHANGED << result_files, returned >>
           ELSE /\ result_files' = Append(result_files,
                                          [name |-> result_file, data |-> result_data])
                /\ returned' = result_file
    /\ pc' = "done"
    /\ UNCHANGED << request, disk, image_urls, ci, uploaded_images, base_prompt,
                    optimized_prompt, i, generated_pages, clock, attempts,
                    last_search, fetches, last_text >>

\* lines 617-640: write the manifest and return its path
Save ==
    /\ pc = "pages"
    /\ i >= count
    /\ LET result_file == "coloring_pages_" \o character_name \o "_"
                          \o Timestamp(clock) \o ".json"
       IN  /\ result_files' = Append(result_files,
                                     [name |-> result_file, data |-> result_data])
           /\ returned' = result_file
    /\ pc' = "done"
    /\ UNCHANGED << request, disk, image_urls, ci, uploaded_images, base_prompt,
                    optimized_prompt, i, generated_pages, clock, attempts,
                    last_search, fetches, last_text >>

Next == Search \/ Fetch \/ Prompt \/ Page \/ Save

Spec == Init /\ [][Next]_vars

\* The run is sequential and nothing blocks it for ever (every call has a
\* timeout), so each enabled step is eventually taken.
FairSpec == Spec /\ WF_vars(Next)


\* ------------------------------------------------ production_generator.main
\* The command-line run: the generator is constructed (init_firebase leaves a
\* bucket or None), --no-firebase clears the bucket, and the pipeline is
\* entered with the parsed arguments.
ProdInit ==
    /\ \E r \in Requests :
          character_name = r[1] /\ age_group = r[2] /\ difficulty = r[3]
    /\ count \in 0..MaxCount
    /\ gemini_api_key \in Keys
    /\ google_search_api_key \in Keys
    /\ google_search_engine_id \in Keys
    /\ bucket \in Buckets
    /\ test_images_exist \in BOOLEAN
    /\ no_firebase \in BOOLEAN
    /\ initialized_bucket = bucket
    /\ NoBatch
    /\ pc = "main"
    /\ image_urls = << >>
    /\ ci = 0
    /\ uploaded_images = << >>
    /\ base_prompt = ""
    /\ optimized_prompt = ""
    /\ i = 0
    /\ generated_pages = << >>
    /\ result_files = << >>
    /\ returned = None
    /\ clock = 0
    /\ attempts = << >>
    /\ last_search = NoSearchCall
    /\ fetches = << >>
    /\ last_text = "none"
    /\ download_files = {}
    /\ overwritten = {}
    /\ call = NoCall

MainUnchanged ==
    << character_name, age_group, difficulty, count, gemini_api_key,
       google_search_api_key, google_search_engine_id, test_images_exist,
       no_firebase, initialized_bucket, image_urls, ci, uploaded_images,
       base_prompt, optimized_prompt, i, generated_pages, result_files,
       returned, clock, attempts, last_search, fetches, last_text,
       download_files, overwritten, batch_vars, call >>

\* variant: the toggle is ignored
Main_IgnoreToggle ==
    /\ pc = "main"
    /\ pc' = "search"
    /\ bucket' = bucket
    /\ UNCHANGED MainUnchanged

\* lines 60-74: `if args.no_firebase: generator.bucket = None`, then the call
\* of generate_coloring_pages
Main ==
    /\ pc = "main"
    /\ pc' = "search"
    /\ bucket' = IF no_firebase THEN None ELSE bucket
    /\ UNCHANGED MainUnchanged

ProdNext == Main \/ Search \/ Fetch \/ Prompt \/ Page \/ Save

ProdSpec == ProdInit /\ [][ProdNext]_vars


\* ------------------------------------------------------- successive runs
\* batch_generator.main calls production_generator.main once per combination
\* of its configuration, and a character has several combinations: the
\* pipeline is entered again for the same character, with the clock further
\* on and the download directory as the earlier run left it.  These runs
\* have no API credentials.
RerunInit ==
    /\ \E r \in Requests :
          character_name = r[1] /\ age_group = r[2] /\ difficulty = r[3]
    /\ count \in 0..MaxCount
    /\ gemini_api_key = ""
    /\ google_search_api_key = ""
    /\ google_search_engine_id = ""
    /\ bucket \in Buckets
    /\ test_images_exist \in BOOLEAN
    /\ no_firebase = FALSE
    /\ initialized_bucket = bucket
    /\ NoBatch
    /\ pc = "search"
    /\ image_urls = << >>
    /\ ci = 0
    /\ uploaded_images = << >>
    /\ base_prompt = ""
    /\ optimized_prompt = ""
    /\ i = 0
    /\ generated_pages = << >>
    /\ result_files = << >>
    /\ returned = None
    /\ clock = 0
    /\ attempts = << >>
    /\ last_search = NoSearchCall
    /\ fetches = << >>
    /\ last_text = "none"
    /\ download_files = {}
    /\ overwritten = {}
    /\ call = NoCall

\* the next call of generate_coloring_pages: its locals start afresh
Rerun ==
    /\ pc = "done"
    /\ Len(result_files) < MaxRuns
    /\ pc' = "search"
    /\ image_urls' = << >>
    /\ ci' = 0
    /\ uploaded_images' = << >>
    /\ base_prompt' = ""
    /\ optimized_prompt' = ""
    /\ i' = 0
    /\ generated_pages' = << >>
    /\ returned' = None
    /\ attempts' = << >>
    /\ last_search' = NoSearchCall
    /\ fetches' = << >>
    /\ last_text' = "none"
    /\ clock' = clock + 1
    /\ UNCHANGED << request, disk, result_files >>

RerunNext == Search \/ Fetch \/ Prompt \/ Page \/ Save \/ Rerun

RerunSpec == RerunInit /\ [][RerunNext]_vars


\* -------------------------------------------------- batch_generator.main
\* The combinations of the default configuration (lines 17-37), in the order
\* of the three nested loops (lines 85-91).
Combos ==
    << [character |-> "Doraemon", age_group |-> "child", difficulty |-> "easy", count |-> 5],
       [character |-> "Doraemon", age_group |-> "child", difficulty |-> "medium", count |-> 5],
       [character |-> "Hachuping", age_group |-> "child", difficulty |-> "easy", count |-> 3],
       [character |-> "Hachuping", age_group |-> "child", difficulty |-> "medium", count |-> 3],
       [character |-> "Hachuping", age_group |-> "child", difficulty |-> "hard", count |-> 3],
       [character |-> "MickeyMouse", age_group |-> "child", difficulty |-> "easy", count |-> 4],
       [character |-> "MickeyMouse", age_group |-> "teen", difficulty |-> "easy", count |-> 4] >>

output_dir == "batch_output"

\* the argument vector the batch itself was started with
BatchArgv ==
    << "batch_generator.py" >>
    \o (IF no_firebase THEN << "--no-firebase" >> ELSE << >>)
    \o (IF extract_images THEN << "--extract-images" >> ELSE << >>)

\* lines 101-114: the argument vector set up for production_generator.main
ProductionArgv(c) ==
    << "production_generator.py", c.character, "--count", ToString(c.count),
       "--age-group", c.age_group, "--difficulty", c.difficulty,
       "--output-dir", output_dir >>
    \o (IF no_firebase THEN << "--no-firebase" >> ELSE << >>)
    \o (IF extract_images THEN << "--extract-images" >> ELSE << >>)

\* How a call of production_generator.main ends: it returns (line 105); an
\* Exception escapes it (raised before its try block, e.g. by os.makedirs at
\* line 48); or it ends in SystemExit (sys.exit(1) at lines 109 and 113 after
\* any failure inside the try block, or the exit of argparse).
RunOutcomes == { "returned", "raised", "exit" }

BatchInit ==
    /\ character_name = ""
    /\ age_group = ""
    /\ difficulty = ""
    /\ count = 0
    /\ gemini_api_key = ""
    /\ google_search_api_key = ""
    /\ google_search_engine_id = ""
    /\ bucket = None
    /\ test_images_exist = TRUE
    /\ no_firebase \in BOOLEAN
    /\ initialized_bucket = None
    /\ extract_images \in BOOLEAN
    /\ sys_argv = BatchArgv
    /\ combo = 1
    /\ total_generated = 0
    /\ results = << >>
    /\ batch_result_files = << >>
    /\ pc = "batch"
    /\ image_urls = << >>
    /\ ci = 0
    /\ uploaded_images = << >>
    /\ base_prompt = ""
    /\ optimized_prompt = ""
    /\ i = 0
    /\ generated_pages = << >>
    /\ result_files = << >>
    /\ returned = None
    /\ clock = 0
    /\ attempts = << >>
    /\ last_search = NoSearchCall
    /\ fetches = << >>
    /\ last_text = "none"
    /\ download_files = {}
    /\ overwritten = {}
    /\ call = NoCall

BatchUnchanged ==
    << character_name, age_group, difficulty, count, gemini_api_key,
       google_search_api_key, google_search_engine_id, bucket,
       test_images_exist, no_firebase, initialized_bucket, extract_images,
       image_urls, ci, uploaded_images, base_prompt, optimized_prompt, i,
       generated_pages, result_files, returned, attempts, last_search,
       fetches, last_text, download_files, overwritten, call >>

BatchResult(c, status) ==
    [character |-> c.character, age_group |-> c.age_group,
     difficulty |-> c.difficulty, count |-> c.count, status |-> status]

\* lines 91-142: one combination.  sys.argv is replaced before the call and
\* put back at line 120, which only the normal return reaches; `except
\* Exception` (line 133) catches an Exception but not SystemExit, which ends
\* main, and with it the loops and the writing of the result file.
BatchRun ==
    /\ pc = "batch"
    /\ combo <= Len(Combos)
    /\ clock' = clock + 1
    /\ \E outcome \in RunOutcomes :
          LET c == Combos[combo]
              old_argv == sys_argv
          IN  CASE outcome = "returned" ->
                      /\ sys_argv' = old_argv
                      /\ total_generated' = total_generated + c.count
                      /\ results' = Append(results, BatchResult(c, "success"))
                      /\ combo' = combo + 1
                      /\ pc' = "batch"
                [] outcome = "raised" ->
                      /\ sys_argv' = ProductionArgv(c)
                      /\ results' = Append(results, BatchResult(c, "failed"))
                      /\ combo' = combo + 1
                      /\ pc' = "batch"
                      /\ UNCHANGED total_generated
                [] outcome = "exit" ->
                      /\ sys_argv' = ProductionArgv(c)
                      /\ pc' = "batch_exit"
                      /\ UNCHANGED << total_generated, results, combo >>
    /\ UNCHANGED << BatchUnchanged, batch_result_files >>

\* lines 158-166: the result file, once the loops have ended
BatchSave ==
    /\ pc = "batch"
    /\ combo > Len(Combos)
    /\ batch_result_files' =
          Append(batch_result_files,
                 [name |-> output_dir \o "/batch_results_" \o Timestamp(clock) \o ".json",
                  total_generated |-> total_generated,
                  output_dir |-> output_dir,
                  results |-> results])
    /\ pc' = "batch_done"
    /\ UNCHANGED << BatchUnchanged, sys_argv, combo, total_generated, results,
                    clock >>

BatchNext == BatchRun \/ BatchSave

BatchSpec == BatchInit /\ [][BatchNext]_vars


\* ---------------------------------------------------- single method calls
\* The methods of ImageCrawlerGenerator called once, on an object with any
\* credentials, with arguments and outcomes drawn from the sets below.
LocatorNames ==
    { "Pokemon Pikachu", "Pikachu", "Doraemon", "Totoro", "",
      "HelloKitty meets Pikachu" }
Limits == (-1)..MaxLimit
LocalPaths ==
    { "downloaded_images/Pokemon Pikachu_1.jpg", "downloaded_images/Totoro_5.jpg",
      "a.jpg" }
ReferenceUrls ==
    { "file://downloaded_images/Totoro_5.jpg",
      PublicUrl("reference_images/Totoro/T0_Totoro_5.jpg"),
      DefaultTestImage }

UnitInit ==
    /\ character_name = "Totoro"
    /\ age_group = "child"
    /\ difficulty = "easy"
    /\ count = 1
    /\ gemini_api_key \in Keys
    /\ google_search_api_key \in Keys
    /\ google_search_engine_id \in Keys
    /\ bucket \in Buckets
    /\ test_images_exist = TRUE
    /\ no_firebase = FALSE
    /\ initialized_bucket = bucket
    /\ NoBatch
    /\ pc = "unit"
    /\ image_urls = << >>
    /\ ci = 0
    /\ uploaded_images = << >>
    /\ base_prompt = ""
    /\ optimized_prompt = ""
    /\ i = 0
    /\ generated_pages = << >>
    /\ result_files = << >>
    /\ returned = None
    /\ clock = 0
    /\ attempts = << >>
    /\ last_search = NoSearchCall
    /\ fetches = << >>
    /\ last_text = "none"
    /\ download_files = {}
    /\ overwritten = {}
    /\ call = NoCall

\* the method has returned: `call` records its arguments and its result
Returned(c) ==
    /\ pc' = "returned"
    /\ call' = c
    /\ UNCHANGED << character_name, age_group, difficulty, count, gemini_api_key,
                    google_search_api_key, google_search_engine_id, bucket,
                    test_images_exist, no_firebase, initialized_bucket,
                    image_urls, ci, uploaded_images,
                    base_prompt, optimized_prompt, i, generated_pages,
                    result_files, returned, clock, attempts, last_search,
                    fetches, last_text, download_files, overwritten,
                    batch_vars >>

CallMock ==
    /\ pc = "unit"
    /\ \E name \in LocatorNames, limit \in Limits :
           Returned([op |-> "mock_image_search", name |-> name, limit |-> limit,
                     result |-> mock_image_search(name, limit)])

CallSearch ==
    /\ pc = "unit"
    /\ \E name \in LocatorNames, limit \in Limits,
          resp \in (IF SearchConfigured THEN SearchResponses ELSE {NoSearchCall}) :
           Returned([op |-> "search_images", name |-> name, limit |-> limit,
                     resp |-> resp, result |-> search_images(name, limit, resp)])

CallUpload ==
    /\ pc = "unit"
    /\ \E path \in LocalPaths, name \in LocatorNames,
          up \in (IF Truthy(bucket) THEN UploadOutcomes ELSE {"none"}) :
           Returned([op |-> "upload_to_firebase_storage", image_path |-> path,
                     name |-> name, up |-> up,
                     result |-> upload_to_firebase_storage(path, name, up)])

CallGenerate ==
    /\ pc = "unit"
    /\ \E page_number \in 1..MaxPageNumber, ref \in ReferenceUrls, read \in BOOLEAN :
           \E resp \in (IF GenPath(ref, read) = "remote" THEN GenResponses
                        ELSE {NoGenCall}) :
               Returned([op |-> "generate_coloring_page_with_gemini_image",
                         page_number |-> page_number, reference |-> ref,
                         path |-> GenPath(ref, read),
                         request |-> ComposeRequest("p", ref, page_number, read),
                         resp |-> resp,
                         result |-> generate_coloring_page_with_gemini_image(
                                       "p", ref, page_number, read, resp)])

SourceUrls ==
    { "test_images/Doraemon_test.png", "missing/none.png",
      "https://img.example/a.jpg" }
ThumbnailUrls == { None, "", "https://img.example/a_t.jpg" }

CallDownload ==
    /\ pc = "unit"
    /\ \E image_url \in SourceUrls, thumbnail_url \in ThumbnailUrls,
          thumb \in HttpOutcomes, orig \in HttpOutcomes :
           Returned([op |-> "download_image", image_url |-> image_url,
                     filename |-> "Totoro_1.jpg", thumbnail_url |-> thumbnail_url,
                     thumb |-> thumb, orig |-> orig,
                     trace |-> DownloadTrace(image_url, thumbnail_url, thumb, orig),
                     result |-> download_image(image_url, "Totoro_1.jpg",
                                               thumbnail_url, thumb, orig)])

PromptNames == { "Pikachu", "Pokemon Pikachu", "Totoro", "" }
PromptAgeGroups == AgeGroups \cup { "senior", "" }
PromptDifficulties == Difficulties \cup { "expert" }

CallPrompt ==
    /\ pc = "unit"
    /\ \E name \in PromptNames, age \in PromptAgeGroups, diff \in PromptDifficulties :
           Returned([op |-> "generate_age_based_prompt", name |-> name,
                     age |-> age, diff |-> diff,
                     result |-> generate_age_based_prompt(name, age, diff)])

UnitNext ==
    \/ CallMock \/ CallSearch \/ CallUpload \/ CallGenerate
    \/ CallDownload \/ CallPrompt

UnitSpec == UnitInit /\ [][UnitNext]_vars


\* ======================================================================
\* Claims
\* ======================================================================
NoCredentials ==
    /\ ~Truthy(google_search_api_key)
    /\ ~Truthy(google_search_engine_id)
    /\ ~Truthy(gemini_api_key)
    /\ ~Truthy(bucket)

PageNumbers(pages) == [k \in DOMAIN pages |-> pages[k].page_number]
OneToN(n) == [k \in 1..n |-> k]

\* C1: with no search, text, image or storage credential, a run with
\* page_count = N >= 1 never stops before the end, every page goes through the
\* local fallback, and the manifest written holds exactly N records numbered
\* 1, 2, ..., N in that order.
C1_OfflineRunYieldsAllPages ==
    (NoCredentials /\ count >= 1) =>
        /\ pc # "done" => ENABLED Next
        /\ \A k \in DOMAIN attempts : attempts[k].path = "local_nokey"
        /\ pc = "done" =>
              /\ Len(result_files) = 1
              /\ Len(result_files[1].data.generated_pages) = count
              /\ PageNumbers(result_files[1].data.generated_pages) = OneToN(count)
              /\ \A k \in 1..count :
                    result_files[1].data.generated_pages[k].generated_image_base64
                        = LocalImage

C1_Witness ==
    /\ NoCredentials
    /\ count >= 2
    /\ pc = "done"
    /\ Len(result_files) = 1
    /\ PageNumbers(result_files[1].data.generated_pages) = OneToN(count)


\* every list of page records the run holds: the loop's list and the lists
\* written to manifests
PageLists ==
    {generated_pages} \cup
    {result_files[k].data.generated_pages : k \in DOMAIN result_files}

\* C2: in every state of a run, whatever the external calls did, at most
\* page_count page records are accumulated, their page_number values are
\* pairwise distinct, and each lies in 1..page_count.
C2_PageRecordsBounded ==
    \A pages \in PageLists :
        /\ Len(pages) <= Max(count, 0)
        /\ \A k \in DOMAIN pages : pages[k].page_number \in 1..count
        /\ \A k, m \in DOMAIN pages :
              k # m => pages[k].page_number # pages[m].page_number

C2_Witness ==
    /\ Truthy(gemini_api_key)
    /\ pc = "done"
    /\ count = 3
    /\ Len(generated_pages) = 2
    /\ \E k \in DOMAIN attempts : attempts[k].call_failed

C4_FailedCallLeavesNoRecord ==
    \A k \in DOMAIN attempts :
        (Truthy(gemini_api_key) /\ attempts[k].call_failed) =>
            /\ ~Truthy(attempts[k].result)
            /\ \A pages \in PageLists : \A m \in DOMAIN pages :
                  pages[m].page_number # attempts[k].page_number

C4_Witness ==
    /\ Truthy(gemini_api_key)
    /\ pc = "done"
    /\ \E k \in DOMAIN attempts : attempts[k].call_failed /\ attempts[k].page_number = 2
    /\ PageNumbers(generated_pages) = << 1, 3 >>

IsPrefix(s, t) == Len(s) <= Len(t) /\ SubSeq(t, 1, Len(s)) = s

\* C5: a failed page never ends the run: an iteration of the page loop,
\* failed or not, moves to the next index, stays in the loop and leaves the
\* records of earlier pages as they are; so when the run is done every index
\* 1..page_count has been attempted, in order.
C5_FailureDoesNotAbort ==
    /\ [][(pc = "pages" /\ i < count) =>
            (/\ pc' = "pages"
             /\ i' = i + 1
             /\ Len(attempts') = Len(attempts) + 1
             /\ attempts'[Len(attempts')].page_number = i + 1
             /\ IsPrefix(generated_pages, generated_pages')
             /\ (~Truthy(attempts'[Len(attempts')].result)
                    => generated_pages' = generated_pages))]_vars
    /\ [](pc = "done" =>
            PageNumbers(attempts) = OneToN(Max(count, 0)))

C5_Witness ==
    /\ pc = "done"
    /\ count = 3
    /\ ~Truthy(attempts[1].result)
    /\ Truthy(attempts[2].result)
    /\ ~Truthy(attempts[3].result)
    /\ PageNumbers(generated_pages) = << 2 >>

\* C6: when the list of fetched-and-published references is not empty, the
\* reference given to the synthesizer for page i, and stored as the record's
\* reference_image, is the published URL of references[(i-1) mod len].
CycledReference(page_number) ==
    uploaded_images[((page_number - 1) % Len(uploaded_images)) + 1].firebase_url

C6_ReferenceCycling ==
    uploaded_images # << >> =>
        /\ \A k \in DOMAIN attempts :
              attempts[k].reference = CycledReference(attempts[k].page_number)
        /\ \A pages \in PageLists : \A k \in DOMAIN pages :
              pages[k].reference_image = CycledReference(pages[k].page_number)

C6_Witness ==
    /\ Len(uploaded_images) = 2
    /\ uploaded_images[1].firebase_url # uploaded_images[2].firebase_url
    /\ Len(generated_pages) = 3
    /\ generated_pages[3].reference_image = uploaded_images[1].firebase_url
    /\ generated_pages[2].reference_image = uploaded_images[2].firebase_url


\* C7: whenever a generation request is composed for page i >= 1, the
\* variation in it is entry (i-1) mod 10 of the list, which has exactly 10
\* entries; so pages i and i+10 get the same variation.
C7_VariationCycling ==
    (call.op = "generate_coloring_page_with_gemini_image" /\ call.path = "remote") =>
        /\ Len(variations) = 10
        /\ call.request.variation = variations[((call.page_number - 1) % 10) + 1]
        /\ call.page_number > 10 =>
              call.request.variation =
                 ComposeRequest("p", call.reference, call.page_number - 10,
                                TRUE).variation

C7_Witness ==
    /\ call.op = "generate_coloring_page_with_gemini_image"
    /\ call.path = "remote"
    /\ call.page_number = 11
    /\ call.request.variation = "cute and friendly expression"

\* C8: upload_to_firebase_storage(path, name) returns 'file://' followed by
\* path when no storage backend is configured and when any step of the upload
\* (blob creation, upload, make-public) fails; it always returns a URL.
C8_UploadDegradesToFileUrl ==
    call.op = "upload_to_firebase_storage" =>
        /\ Truthy(call.result)
        /\ (~Truthy(bucket) \/ call.up \in {"blob", "upload", "make_public"}) =>
              call.result = "file://" \o call.image_path

C8_Witness ==
    /\ call.op = "upload_to_firebase_storage"
    /\ Truthy(bucket)
    /\ call.up = "make_public"
    /\ call.result = "file://downloaded_images/Totoro_5.jpg"

KnownKeys ==
    {"Pikachu", "MickeyMouse", "HelloKitty", "Doraemon", "Hachuping", "IronMeow"}
Urls(candidates) == [k \in DOMAIN candidates |-> candidates[k].url]
Thumbnails(candidates) == [k \in DOMAIN candidates |-> candidates[k].thumbnail]

\* C9: for every name and every limit >= 1, mock_image_search returns a
\* non-empty list of at most limit candidates: for a name containing a known
\* key, the first min(limit, 3) entries of that key's asset set; for any
\* other name, limit candidates that all point to the generic default asset.
C9_MockSearchResult ==
    (call.op = "mock_image_search" /\ call.limit >= 1) =>
        /\ Len(call.result) >= 1
        /\ Len(call.result) <= call.limit
        /\ (\E key \in KnownKeys : Contains(call.name, key)) =>
              \E key \in KnownKeys :
                 /\ Contains(call.name, key)
                 /\ Urls(call.result) =
                       SubSeq(test_images(key), 1, Min(call.limit, 3))
                 /\ Thumbnails(call.result) = Urls(call.result)
        /\ (\A key \in KnownKeys : ~Contains(call.name, key)) =>
              /\ Len(call.result) = call.limit
              /\ \A k \in DOMAIN call.result :
                    /\ call.result[k].url = "test_images/Doraemon_test.png"
                    /\ call.result[k].thumbnail = "test_images/Doraemon_test.png"

C9_Witness ==
    /\ call.op = "mock_image_search"
    /\ call.name = "HelloKitty meets Pikachu"
    /\ call.limit = 2
    /\ Urls(call.result) = << "test_images/Pokemon Pikachu_test.png",
                              "test_images/Pokemon Pikachu_test.png" >>

\* the remote search succeeded with a response the code can parse
SearchSucceeded(resp) ==
    /\ resp.kind = "resp"
    /\ resp.status \in 200..299
    /\ resp.json
    /\ \A j \in DOMAIN resp.items : resp.items[j].complete

\* C10: search_images returns the mock resolver's result whenever a search
\* credential is missing, the remote search answers a non-2xx status, or the
\* request fails with a transport error; it returns the remote result only
\* when the call succeeded with a parseable response.
C10_SearchFallsBackToMock ==
    call.op = "search_images" =>
        /\ ( \/ ~Truthy(google_search_api_key)
             \/ ~Truthy(google_search_engine_id)
             \/ call.resp.kind = "raise"
             \/ (call.resp.kind = "resp" /\ call.resp.status \notin 200..299) )
              => call.result = mock_image_search(call.name, call.limit)
        /\ call.result # mock_image_search(call.name, call.limit) =>
              /\ Truthy(google_search_api_key)
              /\ Truthy(google_search_engine_id)
              /\ SearchSucceeded(call.resp)
              /\ Urls(call.result) =
                    [k \in DOMAIN call.resp.items |-> call.resp.items[k].link]

C10_Witness ==
    /\ call.op = "search_images"
    /\ Truthy(google_search_api_key)
    /\ Truthy(google_search_engine_id)
    /\ call.resp.kind = "resp"
    /\ call.resp.status = 403
    /\ call.limit = 5
    /\ Len(call.result) = 5
    /\ call.result = mock_image_search(call.name, 5)


Targets(trace) == [k \in DOMAIN trace |-> trace[k].target]

\* C11: download_image follows the fetch policy in order: a local (non-http)
\* source is copied with no request at all; otherwise the thumbnail, when
\* there is one, is requested first and a 200 ends the fetch; the source URL
\* is requested only when the thumbnail is absent or its request failed; so
\* there are at most two requests and none is repeated.
C11_FetchPolicy ==
    call.op = "download_image" =>
        LET local   == ~StartsWith(call.image_url, "http")
            hasThumb == call.thumbnail_url \notin {None, ""}
        IN  /\ local => call.trace = << >>
            /\ (~local /\ hasThumb /\ call.thumb = 200) =>
                  /\ Targets(call.trace) = << call.thumbnail_url >>
                  /\ call.result = "downloaded_images/" \o call.filename
            /\ (~local /\ hasThumb /\ call.thumb # 200) =>
                  Targets(call.trace) = << call.thumbnail_url, call.image_url >>
            /\ (~local /\ ~hasThumb) =>
                  Targets(call.trace) = << call.image_url >>
            /\ Len(call.trace) <= 2
            /\ \A k, m \in DOMAIN call.trace :
                  k # m => call.trace[k].target # call.trace[m].target

C11_Witness ==
    /\ call.op = "download_image"
    /\ call.thumb = 404
    /\ call.orig = 200
    /\ Targets(call.trace) =
          << "https://img.example/a_t.jpg", "https://img.example/a.jpg" >>
    /\ call.result = "downloaded_images/Totoro_1.jpg"


DownloadedPath(k) ==
    "downloaded_images/" \o character_name \o "_" \o ToString(k) \o ".jpg"

AssetsOf(k) ==
    { n \in DOMAIN uploaded_images : uploaded_images[n].local_path = DownloadedPath(k) }

C13_OptimizeDegradesToInput ==
    pc \in {"pages", "done"} =>
        /\ gemini_api_key \in {None, ""} => last_text = "none"
        /\ last_text \in {"none", "failed"} => optimized_prompt = base_prompt
        /\ last_text = "ok" => optimized_prompt = ServiceText
        /\ pc = "done" =>
              /\ result_files[1].data.prompt_used = optimized_prompt
              /\ gemini_api_key \in {None, ""} =>
                    result_files[1].data.prompt_used = base_prompt

C13_Witness ==
    /\ pc = "done"
    /\ last_text = "failed"
    /\ result_files[1].data.prompt_used = base_prompt
    /\ base_prompt # ""


GridCells == {"child", "teen", "adult"} \X {"easy", "medium", "hard"}

C16_InvalidRequestRejected ==
    (age_group \notin {"child", "teen", "adult"}
        \/ difficulty \notin {"easy", "medium", "hard"}
        \/ count < 1) =>
            /\ pc = "search"
            /\ last_search = NoSearchCall
            /\ result_files = << >>


FailedPages == { k \in DOMAIN attempts : attempts[k].call_failed }

\* C17: the manifest's total_pages is the requested count whatever the number
\* of pages that succeeded; generated_pages has one entry per successful
\* synthesis; and the two numbers differ exactly when some page failed.
C17_TotalPagesIsRequested ==
    pc = "done" =>
        LET data == result_files[Len(result_files)].data
        IN  /\ data.total_pages = count
            /\ Len(data.generated_pages) = Len(attempts) - Cardinality(FailedPages)
            /\ (Len(data.generated_pages) # data.total_pages) <=> (FailedPages # {})

C17_Witness ==
    /\ pc = "done"
    /\ result_files[1].data.total_pages = 3
    /\ Len(result_files[1].data.generated_pages) = 2
    /\ FailedPages = {2}


StrictlyIncreasing(s) == \A k, m \in DOMAIN s : k < m => s[k] < s[m]

\* the candidate (1-based position in image_urls) an uploaded reference came from
CandidateOf(n) ==
    CHOOSE k \in DOMAIN fetches : fetches[k].local_path = uploaded_images[n].local_path

\* C18: pages are synthesized in strictly ascending page-number order and the
\* manifest keeps the production order: generated_pages is sorted by strictly
\* increasing page_number, and reference_images lists the fetched references
\* in the order in which the locator returned their candidates.
C18_ProductionOrder ==
    /\ \A k \in DOMAIN attempts : attempts[k].page_number = k
    /\ StrictlyIncreasing([k \in DOMAIN generated_pages |->
                              generated_pages[k].page_number])
    /\ \A n \in DOMAIN uploaded_images :
          /\ \E k \in DOMAIN fetches :
                fetches[k].local_path = uploaded_images[n].local_path
          /\ uploaded_images[n].title = image_urls[CandidateOf(n)].title
    /\ StrictlyIncreasing([n \in DOMAIN uploaded_images |-> CandidateOf(n)])
    /\ pc = "done" =>
          /\ result_files[1].data.generated_pages = generated_pages
          /\ result_files[1].data.reference_images = uploaded_images

C18_Witness ==
    /\ pc = "done"
    /\ Len(image_urls) = 2
    /\ Len(uploaded_images) = 2
    /\ Len(generated_pages) = 2
    /\ [k \in 1..2 |-> image_urls[k].title]
          = << RemoteItemA.title, RemoteItemB.title >>
    /\ [n \in 1..2 |-> result_files[1].data.reference_images[n].title]
          = << RemoteItemA.title, RemoteItemB.title >>
    /\ [k \in 1..2 |-> result_files[1].data.generated_pages[k].page_number]
          = << 1, 3 >>


\* C19: the fixed delay separates every two consecutive generation calls,
\* whether the earlier one succeeded or failed: the iteration of page k has
\* paused before the iteration of page k + 1 makes its call.
C19_PauseBetweenCalls ==
    \A k \in DOMAIN attempts :
        (k < Len(attempts) /\ attempts[k].path = "remote"
            /\ attempts[k + 1].path = "remote") => attempts[k].slept


\* C20: when no candidate was fetched (the reference list is empty, which
\* includes a remote search that succeeded with zero items), every page index
\* uses the one default placeholder reference, and every page record carries
\* that default as its reference_image.
C20_DefaultReferenceWhenNoneFetched ==
    (pc \in {"pages", "done"} /\ uploaded_images = << >>) =>
        /\ \A k \in DOMAIN attempts :
              attempts[k].reference = "test_images/Doraemon_test.png"
        /\ \A k \in DOMAIN generated_pages :
              generated_pages[k].reference_image = "test_images/Doraemon_test.png"
        /\ pc = "done" =>
              \A k \in DOMAIN result_files[1].data.generated_pages :
                  result_files[1].data.generated_pages[k].reference_image
                      = "test_images/Doraemon_test.png"

C20_Witness ==
    /\ pc = "done"
    /\ last_search.kind = "resp"
    /\ last_search.status = 200
    /\ image_urls = << >>
    /\ uploaded_images = << >>
    /\ Len(attempts) = 3
    /\ Len(result_files[1].data.generated_pages) = 3
    /\ result_files[1].data.generated_pages[3].reference_image
          = "test_images/Doraemon_test.png"


LocalPageName(n) == "local_coloring_page_" \o ToString(n) \o ".png"

\* C21: every page record in generated_pages has a non-empty
\* generated_image_url and a non-empty image payload in every configuration;
\* a failed page upload or an absent storage backend still yields a record,
\* with a non-empty URL string.
C21_PageRecordsComplete ==
    /\ \A k \in DOMAIN generated_pages :
          /\ generated_pages[k].generated_image_url \notin {None, ""}
          /\ generated_pages[k].generated_image_base64 \notin {None, ""}
          /\ bucket \in {None, ""} =>
                generated_pages[k].generated_image_url
                    = LocalPageName(generated_pages[k].page_number)
    /\ Len(generated_pages) = Cardinality({k \in DOMAIN attempts :
                                              attempts[k].result \notin {None, ""}})

C21_Witness ==
    /\ bucket = "bucket"
    /\ Len(generated_pages) = 2
    /\ generated_pages[1].generated_image_url = LocalPageName(1)
    /\ generated_pages[2].generated_image_url # LocalPageName(2)
    /\ generated_pages[2].generated_image_base64 = "b64:gemini-image"


\* C22: with the disable-durable-storage toggle set, nothing is uploaded at
\* any point of the run: every reference's published URL is 'file://' plus its
\* local path and every page's generated_image_url is the local placeholder
\* name, even when the storage initialization had succeeded.
C22_ToggleDisablesUploads ==
    no_firebase =>
        /\ pc # "main" => bucket = None
        /\ \A n \in DOMAIN uploaded_images :
              uploaded_images[n].firebase_url
                  = "file://" \o uploaded_images[n].local_path
        /\ \A k \in DOMAIN generated_pages :
              generated_pages[k].generated_image_url
                  = "local_coloring_page_"
                    \o ToString(generated_pages[k].page_number) \o ".png"

C22_Witness ==
    /\ no_firebase
    /\ initialized_bucket = "bucket"
    /\ pc = "done"
    /\ Len(uploaded_images) = 3
    /\ uploaded_images[3].firebase_url
          = "file://downloaded_images/Pokemon Pikachu_3.jpg"
    /\ Len(generated_pages) = 3
    /\ generated_pages[3].generated_image_url = "local_coloring_page_3.png"


Rank(p) ==
    CASE p = "search" -> 0
      [] p = "fetch"  -> 1
      [] p = "pages"  -> 2
      [] p = "done"   -> 3
      [] OTHER        -> 0

StageInvariant ==
    /\ pc = "search" =>
          /\ last_search = NoSearchCall /\ image_urls = << >>
          /\ fetches = << >>
    /\ pc \in {"search", "fetch"} =>
          /\ base_prompt = "" /\ last_text = "none"
          /\ attempts = << >> /\ generated_pages = << >>
    /\ pc \in {"pages", "done"} =>
          /\ Len(fetches) = Len(image_urls)
          /\ base_prompt # ""
    /\ pc # "done" => result_files = << >>
    /\ pc = "done" => Len(result_files) = 1 /\ Len(attempts) = count

StageStep ==
    /\ Rank(pc') \in {Rank(pc), Rank(pc) + 1}
    /\ (image_urls' # image_urls \/ last_search' # last_search) =>
          pc = "search" /\ pc' = "fetch"
    /\ (pc = "search" /\ pc' # "search") => fetches' = << >>
    /\ fetches' # fetches => pc = "fetch" /\ pc' = "fetch"
    /\ (base_prompt' # base_prompt \/ optimized_prompt' # optimized_prompt
            \/ last_text' # last_text) =>
          /\ pc = "fetch" /\ pc' = "pages"
          /\ Len(fetches) = Len(image_urls)
          /\ attempts' = << >>
    /\ attempts' # attempts =>
          pc = "pages" /\ pc' = "pages" /\ Len(attempts') = Len(attempts) + 1
    /\ result_files' # result_files =>
          pc = "pages" /\ pc' = "done" /\ Len(attempts) = count

\* C23: the stages of a run execute in a fixed order: the locator is called
\* exactly once and before any fetch; every fetch/publish of a candidate is
\* over before the prompt is built; the raw prompt is built exactly once and
\* refined at most once, before the first page synthesis; the manifest is
\* written exactly once, after the last page index has been processed.
C23_StageOrder == []StageInvariant /\ [][StageStep]_vars

C23_Witness ==
    /\ pc = "done"
    /\ last_search.kind = "resp"
    /\ Len(fetches) = 2
    /\ last_text = "ok"
    /\ Len(attempts) = 3
    /\ Len(result_files) = 1


\* C24: with an image-generation credential configured, the outcome of every
\* page is either the inline image the external service returned or a failure
\* without record; the local fallback drawing is produced only when there is
\* no credential, so a reference that cannot be encoded does not turn a
\* credentialed page into a fallback image.
C24_FallbackOnlyWithoutCredential ==
    gemini_api_key \notin {None, ""} =>
        /\ \A k \in DOMAIN attempts :
              /\ attempts[k].path = "remote"
              /\ attempts[k].result \in {None, "b64:gemini-image"}
        /\ \A k \in DOMAIN generated_pages :
              generated_pages[k].generated_image_base64
                  # "b64:local-800x600-rect-circle-ellipse"

\* C25: every reference URL handed to the page synthesizer, the default
\* placeholder of an empty reference list included, is an http/https URL or a
\* 'file://' URL, so the encoding of the reference is attempted on a
\* well-formed URL for every page.
C25_ReferencesAreWellFormedUrls ==
    \A k \in DOMAIN attempts :
        LET url == attempts[k].reference
        IN  \/ Len(url) >= 7 /\ SubSeq(url, 1, 7) = "http://"
            \/ Len(url) >= 8 /\ SubSeq(url, 1, 8) = "https://"
            \/ Len(url) >= 7 /\ SubSeq(url, 1, 7) = "file://"


FetchedCandidates == { k \in DOMAIN fetches : fetches[k].local_path \notin {None, ""} }

AssetInvariant ==
    /\ Len(uploaded_images) = Cardinality(FetchedCandidates)
    /\ Len(uploaded_images) <= Len(image_urls)
    /\ Len(image_urls) <= 5
    /\ \A k \in DOMAIN fetches :
          Cardinality({ n \in DOMAIN uploaded_images :
                          uploaded_images[n].local_path = fetches[k].local_path })
              = (IF k \in FetchedCandidates THEN 1 ELSE 0)
    /\ \A n \in DOMAIN uploaded_images :
          \/ uploaded_images[n].firebase_url
                = "file://" \o uploaded_images[n].local_path
          \/ /\ bucket = "bucket"
             /\ Len(uploaded_images[n].firebase_url) > 8
             /\ SubSeq(uploaded_images[n].firebase_url, 1, 8) = "https://"

AssetStep ==
    /\ Len(uploaded_images') \in {Len(uploaded_images), Len(uploaded_images) + 1}
    /\ SubSeq(uploaded_images', 1, Len(uploaded_images)) = uploaded_images

\* C26: exactly one reference asset is created per candidate whose fetch
\* succeeded and none for a candidate whose fetch failed; a publish failure
\* never removes an asset, it only makes its URL the file:// form; so the
\* reference list has at most as many entries as the locator returned (at
\* most 5), and an asset is never modified or removed once appended.
C26_OneAssetPerFetchedCandidate == []AssetInvariant /\ [][AssetStep]_vars

C26_Witness ==
    /\ pc = "done"
    /\ bucket = "bucket"
    /\ Len(fetches) = 3
    /\ Len(uploaded_images) = 3
    /\ uploaded_images[1].firebase_url
          = "file://" \o uploaded_images[1].local_path
    /\ uploaded_images[2].firebase_url
          # "file://" \o uploaded_images[2].local_path


RemoteCalls == { k \in DOMAIN attempts : attempts[k].path = "remote" }

\* C27: no retry: within one run the external image-generation service is
\* invoked at most once per page index, so the number of generation calls
\* never exceeds the requested count, whatever the calls' outcomes.
C27_NoRetry ==
    /\ \A k, m \in RemoteCalls :
          k # m => attempts[k].page_number # attempts[m].page_number
    /\ \A k \in RemoteCalls : attempts[k].page_number \in 1..count
    /\ Cardinality(RemoteCalls) <= count

C27_Witness ==
    /\ pc = "done"
    /\ count = 3
    /\ RemoteCalls = {1, 2, 3}
    /\ attempts[1].call_failed
    /\ attempts[2].call_failed
    /\ ~attempts[3].call_failed


\* C28: the download directory is append-only: local filenames carry the
\* character name, the candidate index and a timestamp, so no fetch ever
\* overwrites a file written by another fetch, be it of the same run, of a
\* run for another character, or of an earlier run for the same character.
C28_DownloadsNeverOverwrite ==
    /\ overwritten = {}
    /\ Cardinality(download_files) >= Len(uploaded_images)


\* enhanced_image_generator.py, line 53: dict.get with a default
DictGet(d, key, default) == IF key \in DOMAIN d THEN d[key] ELSE default

\* enhanced_image_generator.py, lines 45-55: the arguments of the calls of
\* generate_seo_metadata, one per entry of the manifest's generated_pages
SeoCalls(result_data_read) ==
    [k \in DOMAIN result_data_read.generated_pages |->
        [character_name |-> character_name,
         age_group |-> age_group,
         difficulty |-> difficulty,
         image_url |-> DictGet(result_data_read.generated_pages[k], "firebase_url", ""),
         page_number |-> k]]

\* C29: the enrichment stage is invoked once per generated_pages entry of the
\* manifest, in order, and each invocation gets that entry's own page_number
\* and its published image URL, also when page numbers are not contiguous.
C29_EnrichmentGetsOwnEntry ==
    pc = "done" =>
        LET data  == result_files[Len(result_files)].data
            calls == SeoCalls(data)
        IN  /\ Len(calls) = Len(data.generated_pages)
            /\ \A k \in DOMAIN calls :
                  /\ calls[k].page_number = data.generated_pages[k].page_number
                  /\ calls[k].image_url = data.generated_pages[k].generated_image_url

SuccessCount ==
    Cardinality({ k \in DOMAIN results : results[k].status = "success" })

\* C30: in the batch, a failed run of one combination does not stop the
\* batch: every remaining combination is still attempted, the failed one is
\* recorded with status 'failed', total_generated counts only the ones
\* recorded as 'success', the argument vector is back at its original value
\* after every combination, and the batch result file is always written.
C30_BatchSurvivesFailures ==
    /\ pc # "batch_exit"
    /\ pc = "batch" =>
          /\ sys_argv = BatchArgv
          /\ Len(results) = combo - 1
    /\ \A k \in DOMAIN results :
          /\ results[k].status \in {"success", "failed"}
          /\ results[k].character = Combos[k].character
    /\ (total_generated = 0) <=> (SuccessCount = 0)
    /\ pc = "batch_done" =>
          /\ Len(results) = Len(Combos)
          /\ Len(batch_result_files) = 1


====
